---- MODULE Spec2Model ----
(***************************************************************************)
(* Index provisioning of the Bedrock RAG backend.                          *)
(*                                                                         *)
(* The module models the vector-index reconciler                           *)
(* (applications/backend/lambda/index_creator/index.py: lambda_handler and *)
(* its helpers) against an OpenSearch collection that holds one index, and *)
(* the two retry executors of the repository (retry_with_backoff of        *)
(* index.py and smart_retry of optimized_handler.py).  It also models, each *)
(* under a specification of its own, the prober wait_for_collection_ready   *)
(* and the validator validate_index_config of index.py, and the status and  *)
(* query handlers of query_handler/handler.py                               *)
(* (handle_knowledge_base_status, handle_query_request), and the           *)
(* ConnectionPool of optimized_handler.py.                                  *)
(***************************************************************************)
EXTENDS Integers, Sequences, FiniteSets, TLC

VARIABLES idx, inv, ninv, last_result, rx, pw, vc, ks, qr, pool

vars == <<idx, inv, ninv, last_result, rx, pw, vc, ks, qr, pool>>

----------------------------------------------------------------------------
(* Bounds of the model *)

\* invocations of lambda_handler one after the other
MaxInvocations == 2
\* largest value of the event field max_retries
MaxRetries == 3

----------------------------------------------------------------------------
(* The backend: one index name of one OpenSearch collection *)

Procs == {1, 2}

NoTag == "absent"
Versions == {"v1", "v2", "v3"}

target_version_stale == "v2"

\* line 196: target_version = "v3"
target_version == "v3"
\* line 234: INDEX_VERSION = "v3"
INDEX_VERSION == "v3"

NoIndex == [exists |-> FALSE, version |-> NoTag]

IndexStates ==
  {NoIndex} \cup {[exists |-> TRUE, version |-> v] : v \in Versions \cup {NoTag}}

\* what a failing backend call raises: AuthorizationException,
\* ConnectionError (with its subclasses ConnectionTimeout and SSLError), or
\* any other exception (NotFoundError, RequestError, ...)
FailureKinds == {"auth", "conn", "other"}

\* the outcome of one backend call as the network decides it
Outcomes == {"ok"} \cup FailureKinds

\* the index definition lambda_handler submits (lines 236-268)
index_body ==
  [version |-> INDEX_VERSION,
   has_vector |-> TRUE, vector_type |-> "knn_vector", dimension |-> 1536,
   has_text |-> TRUE]

\* client.indices.exists: the answer of the backend
indices_exists(i) == i.exists

\* client.indices.get_settings: fails with NotFoundError on a missing index
indices_get_settings(i, out) ==
  IF out # "ok" THEN [ok |-> FALSE, tag |-> NoTag]
  ELSE IF ~i.exists THEN [ok |-> FALSE, tag |-> NoTag]
  ELSE [ok |-> TRUE, tag |-> i.version]

\* client.indices.delete: fails with NotFoundError on a missing index
indices_delete(i, out) ==
  IF out # "ok" THEN [ok |-> FALSE, exc |-> out, idx |-> i]
  ELSE IF ~i.exists THEN [ok |-> FALSE, exc |-> "other", idx |-> i]
  ELSE [ok |-> TRUE, exc |-> "none", idx |-> NoIndex]

\* client.indices.create: fails with RequestError
\* (resource_already_exists_exception) on an existing index
indices_create(i, body, out) ==
  IF out # "ok" THEN [ok |-> FALSE, exc |-> out, idx |-> i]
  ELSE IF i.exists THEN [ok |-> FALSE, exc |-> "other", idx |-> i]
  ELSE [ok |-> TRUE, exc |-> "none",
        idx |-> [exists |-> TRUE, version |-> body.version]]

\* client.indices.get: fails with NotFoundError on a missing index
indices_get(i, out) == out = "ok" /\ i.exists

----------------------------------------------------------------------------
(* Helpers of index.py *)

\* retry_with_backoff, one pass of its loop: what the loop does at `attempt`
\* when the call it makes there succeeds (ok) or raises.
\*   "none"   range(max_retries) is exhausted: no call, the function falls
\*            off the loop and returns None
\*   "return" the call returned, its value is returned
\*   "raise"  the call raised at the last attempt, the exception is re-raised
\*   "sleep"  the call raised, sleep and go on with attempt + 1
retry_with_backoff_swallow(attempt, max_retries, ok) ==
  IF ~(attempt < max_retries) THEN "none"
  ELSE IF ok THEN "return"
  ELSE "sleep"

retry_with_backoff(attempt, max_retries, ok) ==
  IF ~(attempt < max_retries) THEN "none"
  ELSE IF ok THEN "return"
  ELSE IF attempt = max_retries - 1 THEN "raise"
  ELSE "sleep"

\* line 54: delay = initial_delay * (backoff_factor ** attempt)
backoff_delay_linear(initial_delay, backoff_factor, attempt) ==
  initial_delay * backoff_factor * attempt

backoff_delay(initial_delay, backoff_factor, attempt) ==
  initial_delay * (backoff_factor ^ attempt)

\* get_index_version: the tag of the settings, "v1" when the settings carry
\* none, "unknown" when the read raised
get_index_version(i, out) ==
  LET r == indices_get_settings(i, out)
  IN IF ~r.ok THEN "unknown"
     ELSE IF r.tag = NoTag THEN "v1"
     ELSE r.tag

validate_index_config_no_type(body) ==
  /\ body.has_vector
  /\ body.has_text

\* validate_index_config
validate_index_config(body) ==
  /\ body.has_vector
  /\ body.has_text
  /\ body.vector_type = "knn_vector"

----------------------------------------------------------------------------
(* lambda_handler of index.py, one invocation per process *)

\* line 182: wait_for_collection_ready(client, max_wait=120)
max_wait == 120
\* line 71: time.sleep(5)
poll_interval == 5

IdleInv ==
  [pc |-> "idle",
   \* the event: max_retries, wait_for_ready, force_recreate (lines 143-145)
   max_retries |-> 3, wait_for_ready |-> TRUE, force_in |-> FALSE,
   \* locals of lambda_handler
   force_recreate |-> FALSE, current_version |-> "none", found |-> "none",
   attempt |-> 0, elapsed |-> 0, ready |-> FALSE,
   \* wait_for_collection_ready has returned; the version tag the index
   \* carried when get_index_version read its settings
   probed |-> FALSE, stored_tag |-> "none",
   \* what the invocation has done so far
   n_delete |-> 0, n_create |-> 0, deleted_ok |-> FALSE, settled |-> FALSE,
   created |-> FALSE, create_exc |-> "none", verified |-> "none",
   \* the response it returned
   status |-> 0, message |-> "none"]

NoResult == [status |-> 0, message |-> "none", created |-> FALSE]

create_error_status_merged(exc) ==
  CASE exc = "conn" -> 503
    [] OTHER -> 500

\* lines 304-325: the except clauses around create_index_with_retry
create_error_status(exc) ==
  CASE exc = "auth" -> 403
    [] exc = "conn" -> 503
    [] OTHER -> 500

\* return create_success_response(...) / create_error_response(...)
Respond(r, status, message) ==
  [r EXCEPT !.pc = "done", !.status = status, !.message = message]

\* lines 270-276: validate the index definition, then go on to the creation
ToCreate(r) ==
  IF validate_index_config(index_body)
  THEN [r EXCEPT !.pc = "create", !.attempt = 0]
  ELSE Respond(r, 400, "invalid")

\* lambda_handler is entered with an event (lines 139-145)
Invoke(p, mr, wfr, fr) ==
  /\ inv[p].pc = "idle"
  /\ ninv < MaxInvocations
  /\ ninv' = ninv + 1
  /\ inv' = [inv EXCEPT ![p] =
       [IdleInv EXCEPT !.pc = "setup", !.max_retries = mr,
                       !.wait_for_ready = wfr, !.force_in = fr,
                       !.force_recreate = fr]]
  /\ UNCHANGED <<idx, last_result, rx, pw, vc, ks, qr, pool>>

\* lines 158-177: credentials, signer and client; an exception here reaches
\* the outer except (lines 327-333)
Setup(p, ok) ==
  /\ inv[p].pc = "setup"
  /\ inv' = [inv EXCEPT ![p] =
       IF ~ok THEN Respond(@, 500, "error")
       ELSE IF @.wait_for_ready THEN [@ EXCEPT !.pc = "probe"]
       ELSE [@ EXCEPT !.pc = "exists"]]
  /\ UNCHANGED <<idx, ninv, last_result, rx, pw, vc, ks, qr, pool>>

wait_for_collection_ready_once(elapsed, limit, out) ==
  IF ~(elapsed < limit) THEN [done |-> TRUE, ready |-> FALSE, elapsed |-> elapsed]
  ELSE IF out = "ok" THEN [done |-> TRUE, ready |-> TRUE, elapsed |-> elapsed]
  ELSE [done |-> TRUE, ready |-> FALSE, elapsed |-> elapsed + poll_interval]

wait_for_collection_ready_inclusive(elapsed, limit, out) ==
  IF ~(elapsed <= limit) THEN [done |-> TRUE, ready |-> FALSE, elapsed |-> elapsed]
  ELSE IF out = "ok" THEN [done |-> TRUE, ready |-> TRUE, elapsed |-> elapsed]
  ELSE [done |-> FALSE, ready |-> FALSE, elapsed |-> elapsed + poll_interval]

\* wait_for_collection_ready, one pass of its loop: the time check, the probe
\* client.info() and the sleep after a failed probe
wait_for_collection_ready(elapsed, limit, out) ==
  IF ~(elapsed < limit) THEN [done |-> TRUE, ready |-> FALSE, elapsed |-> elapsed]
  ELSE IF out = "ok" THEN [done |-> TRUE, ready |-> TRUE, elapsed |-> elapsed]
  ELSE [done |-> FALSE, ready |-> FALSE, elapsed |-> elapsed + poll_interval]

Probe_abort_on_timeout(p, out) ==
  /\ inv[p].pc = "probe"
  /\ LET w == wait_for_collection_ready(inv[p].elapsed, max_wait, out)
     IN inv' = [inv EXCEPT ![p] =
          IF w.done /\ w.ready
          THEN [@ EXCEPT !.pc = "exists", !.ready = TRUE, !.elapsed = 0,
                         !.probed = TRUE]
          ELSE IF w.done
          THEN Respond([@ EXCEPT !.probed = TRUE, !.elapsed = 0], 503, "error")
          ELSE [@ EXCEPT !.elapsed = w.elapsed]]
  /\ UNCHANGED <<idx, ninv, last_result, rx, pw, vc, ks, qr, pool>>

\* lines 180-183: the result of the prober is only logged
Probe(p, out) ==
  /\ inv[p].pc = "probe"
  /\ LET w == wait_for_collection_ready(inv[p].elapsed, max_wait, out)
     IN inv' = [inv EXCEPT ![p] =
          IF w.done
          THEN [@ EXCEPT !.pc = "exists", !.ready = w.ready, !.elapsed = 0,
                         !.probed = TRUE]
          ELSE [@ EXCEPT !.elapsed = w.elapsed]]
  /\ UNCHANGED <<idx, ninv, last_result, rx, pw, vc, ks, qr, pool>>

\* lines 186-192 and 227-229: the existence check, 2 attempts
CheckExists(p, out) ==
  /\ inv[p].pc = "exists"
  /\ LET ctl == retry_with_backoff(inv[p].attempt, 2, out = "ok")
     IN inv' = [inv EXCEPT ![p] =
          CASE ctl = "return" ->
                 IF indices_exists(idx)
                 THEN [@ EXCEPT !.pc = "settings", !.found = "yes"]
                 ELSE ToCreate([@ EXCEPT !.found = "no"])
            [] ctl = "sleep" -> [@ EXCEPT !.attempt = @ + 1]
            [] ctl = "raise" -> ToCreate([@ EXCEPT !.found = "error"])
            [] OTHER -> ToCreate([@ EXCEPT !.found = "no"])]
  /\ UNCHANGED <<idx, ninv, last_result, rx, pw, vc, ks, qr, pool>>

\* lines 194-203 and 219-226: the version comparison
GetVersion(p, out) ==
  /\ inv[p].pc = "settings"
  /\ LET v == get_index_version(idx, out)
         force == inv[p].force_recreate \/ v # target_version
         r == [inv[p] EXCEPT !.current_version = v,
                             !.stored_tag = idx.version]
     IN inv' = [inv EXCEPT ![p] =
          IF force
          THEN [r EXCEPT !.pc = "delete", !.attempt = 0,
                         !.force_recreate = TRUE]
          ELSE Respond(r, 200, "exists")]
  /\ UNCHANGED <<idx, ninv, last_result, rx, pw, vc, ks, qr, pool>>

DeleteIndex_no_settle(p, out) ==
  /\ inv[p].pc = "delete"
  /\ LET r == indices_delete(idx, out)
         ctl == retry_with_backoff(inv[p].attempt, 3, r.ok)
         d == [inv[p] EXCEPT !.n_delete = @ + 1]
     IN /\ idx' = r.idx
        /\ inv' = [inv EXCEPT ![p] =
             CASE ctl = "return" ->
                    ToCreate([d EXCEPT !.deleted_ok = TRUE])
               [] ctl = "sleep" -> [d EXCEPT !.attempt = @ + 1]
               [] OTHER -> ToCreate(d)]
  /\ UNCHANGED <<ninv, last_result, rx, pw, vc, ks, qr, pool>>

\* lines 205-211 and 216-218: the delete, 3 attempts; when all fail the
\* handler goes on to the creation
DeleteIndex(p, out) ==
  /\ inv[p].pc = "delete"
  /\ LET r == indices_delete(idx, out)
         ctl == retry_with_backoff(inv[p].attempt, 3, r.ok)
         d == [inv[p] EXCEPT !.n_delete = @ + 1]
     IN /\ idx' = r.idx
        /\ inv' = [inv EXCEPT ![p] =
             CASE ctl = "return" ->
                    [d EXCEPT !.pc = "settle_delete", !.deleted_ok = TRUE]
               [] ctl = "sleep" -> [d EXCEPT !.attempt = @ + 1]
               [] OTHER -> ToCreate(d)]
  /\ UNCHANGED <<ninv, last_result, rx, pw, vc, ks, qr, pool>>

\* lines 213-215: time.sleep(10) after the delete
SettleAfterDelete(p) ==
  /\ inv[p].pc = "settle_delete"
  /\ inv' = [inv EXCEPT ![p] = ToCreate([@ EXCEPT !.settled = TRUE])]
  /\ UNCHANGED <<idx, ninv, last_result, rx, pw, vc, ks, qr, pool>>

\* lines 276-280 and 304-325: create_index_with_retry with the max_retries
\* of the event, and the except clauses
CreateIndex(p, out) ==
  /\ inv[p].pc = "create"
  /\ LET calls == inv[p].attempt < inv[p].max_retries
         r == indices_create(idx, index_body, out)
         ctl == retry_with_backoff(inv[p].attempt, inv[p].max_retries,
                                   calls /\ r.ok)
         c == [inv[p] EXCEPT !.n_create = @ + 1]
     IN /\ idx' = IF calls THEN r.idx ELSE idx
        /\ inv' = [inv EXCEPT ![p] =
             CASE ctl = "none" -> [@ EXCEPT !.pc = "settle_create"]
               [] ctl = "return" ->
                    [c EXCEPT !.pc = "settle_create", !.created = TRUE]
               [] ctl = "sleep" -> [c EXCEPT !.attempt = @ + 1]
               [] OTHER ->
                    Respond([c EXCEPT !.create_exc = r.exc],
                            create_error_status(r.exc), "error")]
  /\ UNCHANGED <<ninv, last_result, rx, pw, vc, ks, qr, pool>>

\* lines 282-284: time.sleep(10) after the creation
SettleAfterCreate(p) ==
  /\ inv[p].pc = "settle_create"
  /\ inv' = [inv EXCEPT ![p] = [@ EXCEPT !.pc = "verify", !.attempt = 0]]
  /\ UNCHANGED <<idx, ninv, last_result, rx, pw, vc, ks, qr, pool>>

VerifyIndex_fatal(p, out) ==
  /\ inv[p].pc = "verify"
  /\ LET ctl == retry_with_backoff(inv[p].attempt, 3, indices_get(idx, out))
     IN inv' = [inv EXCEPT ![p] =
          CASE ctl = "return" ->
                 Respond([@ EXCEPT !.verified = "yes"], 200, "created")
            [] ctl = "sleep" -> [@ EXCEPT !.attempt = @ + 1]
            [] OTHER -> Respond([@ EXCEPT !.verified = "no"], 500, "error")]
  /\ UNCHANGED <<idx, ninv, last_result, rx, pw, vc, ks, qr, pool>>

\* lines 286-302: the verification read, 3 attempts, and the success response
VerifyIndex(p, out) ==
  /\ inv[p].pc = "verify"
  /\ LET ctl == retry_with_backoff(inv[p].attempt, 3, indices_get(idx, out))
     IN inv' = [inv EXCEPT ![p] =
          CASE ctl = "return" ->
                 Respond([@ EXCEPT !.verified = "yes"], 200, "created")
            [] ctl = "sleep" -> [@ EXCEPT !.attempt = @ + 1]
            [] OTHER -> Respond([@ EXCEPT !.verified = "no"], 200, "created")]
  /\ UNCHANGED <<idx, ninv, last_result, rx, pw, vc, ks, qr, pool>>

\* the response reaches the caller; the process can take the next event
Return(p) ==
  /\ inv[p].pc = "done"
  /\ last_result' = [status |-> inv[p].status, message |-> inv[p].message,
                     created |-> inv[p].created]
  /\ inv' = [inv EXCEPT ![p] = IdleInv]
  /\ UNCHANGED <<idx, ninv, rx, pw, vc, ks, qr, pool>>

\* the values of the event field max_retries
RetryInputs == (-1) .. MaxRetries

HandlerStep(p, out) ==
  \/ \E mr \in RetryInputs, wfr \in BOOLEAN, fr \in BOOLEAN : Invoke(p, mr, wfr, fr)
  \/ Setup(p, out = "ok")
  \/ Probe(p, out)
  \/ CheckExists(p, out)
  \/ GetVersion(p, out)
  \/ DeleteIndex(p, out)
  \/ SettleAfterDelete(p)
  \/ CreateIndex(p, out)
  \/ SettleAfterCreate(p)
  \/ VerifyIndex(p, out)
  \/ Return(p)

NoRetryRun == [pc |-> "off"]
NoProberRun == [pc |-> "off"]
NoPool == [pc |-> "off"]
NoQueryRun == [pc |-> "off"]
NoStatusRun == [pc |-> "off"]
NoValidation == [pc |-> "off"]

\* invocations one after the other, against a backend whose calls may fail
Init ==
  /\ idx \in IndexStates
  /\ inv = [p \in Procs |-> IdleInv]
  /\ ninv = 0
  /\ last_result = NoResult
  /\ rx = NoRetryRun
  /\ pw = NoProberRun
  /\ vc = NoValidation
  /\ ks = NoStatusRun
  /\ qr = NoQueryRun
  /\ pool = NoPool

Next == \E out \in Outcomes : HandlerStep(1, out)

Spec == Init /\ [][Next]_vars

\* invocations one after the other, against a backend that fails a call only
\* for the state of the index
NextReliable == HandlerStep(1, "ok")

SpecReliable == Init /\ [][NextReliable]_vars

----------------------------------------------------------------------------
(* wait_for_collection_ready of index.py on its own *)

\* largest value of the parameter max_wait, in seconds
MaxWait == 12
\* the values of max_wait
WaitInputs == (-1) .. MaxWait
\* seconds that one call of client.info() takes
ProbeTimes == {0, 1}

ProberRuns ==
  [pc : {"loop"}, max_wait : WaitInputs,
   \* time.time() - start_time
   elapsed : {0},
   \* calls of client.info(), and those that returned
   probes : {0}, ok_probes : {0},
   \* the value returned: "true", "false", or "none" while it runs
   result : {"none"}]

\* lines 63-71: one pass of the loop of wait_for_collection_ready, and line
\* 73 when the loop ends; out is the outcome of client.info() and took the
\* time the call needed
ProberPass(out, took) ==
  /\ pw.pc = "loop"
  /\ LET w == wait_for_collection_ready(pw.elapsed, pw.max_wait, out)
         probed == ~(w.done /\ ~w.ready)
     IN pw' = [pw EXCEPT
          !.pc = IF w.done THEN "done" ELSE "loop",
          !.elapsed = IF probed THEN w.elapsed + took ELSE w.elapsed,
          !.probes = IF probed THEN @ + 1 ELSE @,
          !.ok_probes = IF w.ready THEN @ + 1 ELSE @,
          !.result = IF ~w.done THEN "none"
                     ELSE IF w.ready THEN "true" ELSE "false"]
  /\ UNCHANGED <<idx, inv, ninv, last_result, rx, vc, ks, qr, pool>>

InitProber ==
  /\ idx = NoIndex
  /\ inv = [p \in Procs |-> IdleInv]
  /\ ninv = 0
  /\ last_result = NoResult
  /\ rx = NoRetryRun
  /\ pw \in ProberRuns
  /\ vc = NoValidation
  /\ ks = NoStatusRun
  /\ qr = NoQueryRun
  /\ pool = NoPool

NextProber == \E out \in Outcomes, took \in ProbeTimes : ProberPass(out, took)

SpecProber == InitProber /\ [][NextProber]_vars

\* C12: wait_for_collection_ready returns True as soon as one probe
\* succeeds (no probe follows a successful one), returns False only when no
\* probe succeeded and the elapsed time has reached max_wait, and ends with
\* one of the two values whatever the failures of the probes.
C12_ProberResult ==
  /\ pw.ok_probes > 0 =>
       pw.pc = "done" /\ pw.result = "true" /\ pw.ok_probes = 1
  /\ pw.pc = "done" => pw.result \in {"true", "false"}
  /\ pw.result = "true" => pw.ok_probes = 1
  /\ pw.result = "false" => pw.ok_probes = 0 /\ pw.elapsed >= pw.max_wait
  /\ pw.pc = "loop" => pw.result = "none"

\* a run that returned False after its probes failed
C12_Witness ==
  /\ pw.pc = "done" /\ pw.result = "false"
  /\ pw.probes >= 2 /\ pw.max_wait > 0

----------------------------------------------------------------------------
(* validate_index_config of index.py on its own *)

\* the declared type of the vector field; "absent" is a field without 'type'
VectorTypes == {"knn_vector", "float", "absent"}
Dimensions == {768, 1024, 1536}

\* index definitions: the one of lambda_handler and its variations
IndexBodies ==
  [version : {INDEX_VERSION}, has_vector : BOOLEAN, vector_type : VectorTypes,
   dimension : Dimensions, has_text : BOOLEAN]

\* lines 100-111: the line the function prints when it rejects
validate_log(body) ==
  IF ~body.has_vector THEN "Missing required field: bedrock-knowledge-base-vector"
  ELSE IF ~body.has_text THEN "Missing required field: text"
  ELSE IF body.vector_type # "knn_vector"
    THEN "Vector field must be of type 'knn_vector'"
  ELSE "Index configuration validation passed"

ValidationRuns ==
  [pc : {"validate"}, body : IndexBodies,
   \* the bool validate_index_config returned and the line it printed
   result : {FALSE}, log : {"none"},
   \* the response of lambda_handler when it rejects the definition
   status : {0}, message : {"none"}]

\* line 273: the call validate_index_config(index_body)
ValidateConfig ==
  /\ vc.pc = "validate"
  /\ vc' = [vc EXCEPT !.pc = "checked",
                      !.result = validate_index_config(vc.body),
                      !.log = validate_log(vc.body)]
  /\ UNCHANGED <<idx, inv, ninv, last_result, rx, pw, ks, qr, pool>>

\* lines 273-276: a rejected definition is answered with 400, an accepted
\* one goes on to the creation
ValidateBranch ==
  /\ vc.pc = "checked"
  /\ vc' = IF vc.result THEN [vc EXCEPT !.pc = "create"]
           ELSE [vc EXCEPT !.pc = "done", !.status = 400, !.message = "invalid"]
  /\ UNCHANGED <<idx, inv, ninv, last_result, rx, pw, ks, qr, pool>>

InitValidate ==
  /\ idx = NoIndex
  /\ inv = [p \in Procs |-> IdleInv]
  /\ ninv = 0
  /\ last_result = NoResult
  /\ rx = NoRetryRun
  /\ pw = NoProberRun
  /\ vc \in ValidationRuns
  /\ ks = NoStatusRun
  /\ qr = NoQueryRun
  /\ pool = NoPool

NextValidate == ValidateConfig \/ ValidateBranch

SpecValidate == InitValidate /\ [][NextValidate]_vars

LacksField(body) == ~body.has_vector \/ ~body.has_text
WrongVectorType(body) ==
  body.has_vector /\ body.has_text /\ body.vector_type # "knn_vector"

\* C13 as stated: a definition lacking the vector field or the text field is
\* rejected with an error (MissingField) that differs from the error
\* (WrongFieldType) with which a definition of wrong vector type is rejected.
C13_DistinctErrors ==
  vc.pc = "checked" /\ LacksField(vc.body) =>
    \A b \in IndexBodies :
      WrongVectorType(b) => validate_index_config(b) # vc.result

\* C13: validate_index_config returns True for the definition of
\* lambda_handler (knn_vector of dimension 1536 and the text field), and
\* returns False, the one value for every reason, for a definition that
\* lacks the vector field or the text field or whose vector field is not of
\* type knn_vector; only the printed line names the reason, and the handler
\* answers every rejection with the same 400 response.
C13_ValidateAcceptsAndRejects ==
  vc.pc \in {"checked", "create", "done"} =>
    /\ vc.body = index_body => vc.result
    /\ vc.result <=>
         (vc.body.has_vector /\ vc.body.has_text
            /\ vc.body.vector_type = "knn_vector")
    /\ LacksField(vc.body) => vc.log # "Vector field must be of type 'knn_vector'"
    /\ vc.pc = "done" <=> (vc.status = 400 /\ vc.message = "invalid")
    /\ vc.pc = "done" => ~vc.result
    /\ vc.pc = "create" => vc.result

\* a definition without the text field has been answered with 400
C13_Witness ==
  /\ vc.pc = "done" /\ vc.status = 400
  /\ vc.body.has_vector /\ ~vc.body.has_text
  /\ vc.body.vector_type = "knn_vector" /\ vc.body.dimension = 1536

----------------------------------------------------------------------------
(* handle_knowledge_base_status of query_handler/handler.py: the readiness *)
(* verdict computed from the knowledge base status and the ingestion jobs  *)

\* jobs in the answer of list_ingestion_jobs
MaxJobs == 6
\* jobs in that answer when the detail reads may fail
MaxFaultyJobs == 2

\* handler.py line 560: maxResults=10
max_results == 10
\* handler.py line 575: job_summaries[:5]
detail_window == 5

KbStatuses == {"ACTIVE", "CREATING"}

\* ingestion jobs of the data source: status and statistics
JobKinds ==
  { [status |-> "COMPLETE", scanned |-> 10, new |-> 8, modified |-> 2],
    [status |-> "COMPLETE", scanned |-> 4, new |-> 0, modified |-> 0],
    [status |-> "IN_PROGRESS", scanned |-> 0, new |-> 0, modified |-> 0],
    [status |-> "FAILED", scanned |-> 2, new |-> 0, modified |-> 0] }

\* the jobs of the data source, newest first
JobLists(n) == UNION {[1 .. k -> JobKinds] : k \in 0 .. n}

\* further jobs: one that has only started, and one that failed after it
\* had indexed documents
OtherJobKinds ==
  { [status |-> "STARTING", scanned |-> 0, new |-> 0, modified |-> 0],
    [status |-> "FAILED", scanned |-> 6, new |-> 3, modified |-> 0] }

AnyJobLists(n) == UNION {[1 .. k -> JobKinds \cup OtherJobKinds] : k \in 0 .. n}

Min(a, b) == IF a <= b THEN a ELSE b
MaxOf(S) == CHOOSE x \in S : \A y \in S : y <= x

\* stats.get(..., 0) on a summary that carries no 'statistics'
NoStats == [status |-> "none", scanned |-> 0, new |-> 0, modified |-> 0]

\* list_ingestion_jobs: the summaries of the newest max_results jobs; with_stats
\* tells whether the summaries carry the key 'statistics'
list_ingestion_jobs(stored, with_stats) ==
  [i \in 1 .. Min(Len(stored), max_results) |->
     IF with_stats THEN stored[i]
     ELSE [NoStats EXCEPT !.status = stored[i].status]]

\* line 588 and line 629: new plus modified documents indexed
documents_indexed(stats) == stats.new + stats.modified

\* lines 575-612: the loop over the first five summaries; failed holds the
\* positions whose get_ingestion_job call raised
ingestion_jobs(job_summaries, stored, failed) ==
  [i \in 1 .. Min(Len(job_summaries), detail_window) |->
     IF i \in failed
     THEN [status |-> job_summaries[i].status, error |-> TRUE,
           documentsScanned |-> 0, documentsIndexed |-> 0]
     ELSE [status |-> job_summaries[i].status, error |-> FALSE,
           documentsScanned |-> stored[i].scanned,
           documentsIndexed |-> documents_indexed(stored[i])]]

\* lines 602-604: a COMPLETE job whose detail shows indexed documents
has_any_documents(jobs) ==
  \E i \in DOMAIN jobs :
    /\ ~jobs[i].error
    /\ jobs[i].status = "COMPLETE"
    /\ jobs[i].documentsIndexed > 0

total_documents_indexed_ungated(job_summaries, has_any) ==
  MaxOf({0} \cup
    {job_summaries[i].scanned : i \in
       {k \in DOMAIN job_summaries :
          /\ job_summaries[k].status = "COMPLETE"
          /\ documents_indexed(job_summaries[k]) > 0}})

\* lines 624-631: the largest scanned count of the COMPLETE summaries that
\* show indexed documents
total_documents_indexed(job_summaries, has_any) ==
  IF ~has_any THEN 0
  ELSE MaxOf({0} \cup
         {job_summaries[i].scanned : i \in
            {k \in DOMAIN job_summaries :
               /\ job_summaries[k].status = "COMPLETE"
               /\ documents_indexed(job_summaries[k]) > 0}})

\* line 615
latest_job_status(job_summaries) ==
  IF job_summaries = <<>> THEN "None" ELSE job_summaries[1].status

Verdict(ready, message) == [systemReady |-> ready, readyMessage |-> message]

active_verdict_no_empty_case(job_summaries, has_any, total) ==
  LET latest == latest_job_status(job_summaries)
  IN CASE latest = "COMPLETE" ->
            IF has_any \/ total > 0
            THEN Verdict(TRUE, IF total > 0 THEN "ready_with_documents(count)"
                               ELSE "ready_with_documents(many)")
            ELSE Verdict(FALSE, "ready_no_documents")
       [] latest = "IN_PROGRESS" -> Verdict(FALSE, "processing_documents")
       [] latest = "FAILED" ->
            IF has_any THEN Verdict(TRUE, "latest_failed_documents_remain")
            ELSE Verdict(FALSE, "indexing_failed")
       [] OTHER -> Verdict(FALSE, "status_unknown")

active_verdict_progress_as_failed(job_summaries, has_any, total) ==
  LET latest == latest_job_status(job_summaries)
  IN CASE job_summaries = <<>> -> Verdict(FALSE, "ready_no_documents")
       [] latest = "COMPLETE" ->
            IF has_any \/ total > 0
            THEN Verdict(TRUE, IF total > 0 THEN "ready_with_documents(count)"
                               ELSE "ready_with_documents(many)")
            ELSE Verdict(FALSE, "ready_no_documents")
       [] latest \in {"IN_PROGRESS", "FAILED"} ->
            IF has_any THEN Verdict(TRUE, "latest_failed_documents_remain")
            ELSE Verdict(FALSE, "indexing_failed")
       [] OTHER -> Verdict(FALSE, "status_unknown")

active_verdict_complete_ready(job_summaries, has_any, total) ==
  LET latest == latest_job_status(job_summaries)
  IN CASE job_summaries = <<>> -> Verdict(FALSE, "ready_no_documents")
       [] latest = "COMPLETE" ->
            Verdict(TRUE, IF total > 0 THEN "ready_with_documents(count)"
                          ELSE "ready_with_documents(many)")
       [] latest = "IN_PROGRESS" -> Verdict(FALSE, "processing_documents")
       [] latest = "FAILED" ->
            IF has_any THEN Verdict(TRUE, "latest_failed_documents_remain")
            ELSE Verdict(FALSE, "indexing_failed")
       [] OTHER -> Verdict(FALSE, "status_unknown")

\* lines 638-662: the verdict for an ACTIVE knowledge base
active_verdict(job_summaries, has_any, total) ==
  LET latest == latest_job_status(job_summaries)
  IN CASE job_summaries = <<>> -> Verdict(FALSE, "ready_no_documents")
       [] latest = "COMPLETE" ->
            IF has_any \/ total > 0
            THEN Verdict(TRUE, IF total > 0 THEN "ready_with_documents(count)"
                               ELSE "ready_with_documents(many)")
            ELSE Verdict(FALSE, "ready_no_documents")
       [] latest = "IN_PROGRESS" -> Verdict(FALSE, "processing_documents")
       [] latest = "FAILED" ->
            IF has_any THEN Verdict(TRUE, "latest_failed_documents_remain")
            ELSE Verdict(FALSE, "indexing_failed")
       [] OTHER -> Verdict(FALSE, "status_unknown")

readiness_any_status(kb_status, job_summaries, has_any, total) ==
  active_verdict(job_summaries, has_any, total)

\* lines 633-664: system_ready and ready_message
readiness(kb_status, job_summaries, has_any, total) ==
  IF kb_status = "ACTIVE" THEN active_verdict(job_summaries, has_any, total)
  ELSE Verdict(FALSE, "kb_status_abnormal")

\* lines 667-690: the status response
status_response(kb_status, job_summaries, jobs) ==
  LET has_any == has_any_documents(jobs)
      total == total_documents_indexed(job_summaries, has_any)
      v == readiness(kb_status, job_summaries, has_any, total)
  IN [statusCode |-> 200, success |-> TRUE,
      systemReady |-> v.systemReady, readyMessage |-> v.readyMessage,
      hasDocuments |-> has_any, ingestionJobs |-> jobs,
      latestJobStatus |-> latest_job_status(job_summaries),
      totalDocumentsIndexed |-> total,
      totalJobs |-> Len(job_summaries)]

\* create_error_response(500, ...): no verdict in the body
error_response(message) ==
  [statusCode |-> 500, success |-> FALSE, error |-> message]

NoResponse == [statusCode |-> 0]

\* a GET /status request
StatusRuns ==
  [pc : {"start"},
   \* KNOWLEDGE_BASE_ID and DATA_SOURCE_ID are set (line 548)
   configured : BOOLEAN,
   kb_status : {"none"},
   \* the jobs of the data source and the summaries list_ingestion_jobs gave
   stored : {<<>>}, job_summaries : {<<>>},
   \* the positions whose get_ingestion_job call raised
   failed : {{}},
   \* the call whose exception reached the except clause of line 692
   raised : {"none"},
   response : {NoResponse}]

\* lines 541-554: the configuration check and get_knowledge_base
GetKnowledgeBase(out, kb_status) ==
  /\ ks.pc = "start"
  /\ ks' = IF ~ks.configured
           THEN [ks EXCEPT !.pc = "done",
                           !.response = error_response("not_configured")]
           ELSE IF out # "ok"
           THEN [ks EXCEPT !.pc = "done", !.raised = "get_knowledge_base",
                           !.response = error_response("status_failed")]
           ELSE [ks EXCEPT !.pc = "list", !.kb_status = kb_status]
  /\ UNCHANGED <<idx, inv, ninv, last_result, rx, pw, vc, qr, pool>>

\* lines 557-573: list_ingestion_jobs
ListIngestionJobs(out, lists) ==
  /\ ks.pc = "list"
  /\ \E stored \in lists, with_stats \in BOOLEAN :
       ks' = IF out # "ok"
             THEN [ks EXCEPT !.pc = "done", !.raised = "list_ingestion_jobs",
                             !.response = error_response("status_failed")]
             ELSE [ks EXCEPT !.pc = "jobs", !.stored = stored,
                     !.job_summaries = list_ingestion_jobs(stored, with_stats)]
  /\ UNCHANGED <<idx, inv, ninv, last_result, rx, pw, vc, qr, pool>>

AggregateJobs_fatal(failed) ==
  /\ ks.pc = "jobs"
  /\ failed \subseteq 1 .. Min(Len(ks.job_summaries), detail_window)
  /\ ks' = [ks EXCEPT !.pc = "done", !.failed = failed,
              !.response =
                 IF failed # {} THEN error_response("status_failed")
                 ELSE status_response(ks.kb_status, ks.job_summaries,
                        ingestion_jobs(ks.job_summaries, ks.stored, failed))]
  /\ UNCHANGED <<idx, inv, ninv, last_result, rx, pw, vc, qr, pool>>

\* lines 575-690: the detail reads, the totals, the verdict and the response
AggregateJobs(failed) ==
  /\ ks.pc = "jobs"
  /\ failed \subseteq 1 .. Min(Len(ks.job_summaries), detail_window)
  /\ ks' = [ks EXCEPT !.pc = "done", !.failed = failed,
              !.response =
                 status_response(ks.kb_status, ks.job_summaries,
                   ingestion_jobs(ks.job_summaries, ks.stored, failed))]
  /\ UNCHANGED <<idx, inv, ninv, last_result, rx, pw, vc, qr, pool>>

InitStatus ==
  /\ idx = NoIndex
  /\ inv = [p \in Procs |-> IdleInv]
  /\ ninv = 0
  /\ last_result = NoResult
  /\ rx = NoRetryRun
  /\ pw = NoProberRun
  /\ vc = NoValidation
  /\ ks \in StatusRuns
  /\ qr = NoQueryRun
  /\ pool = NoPool

\* every read of the backend succeeds
NextStatus ==
  \/ \E st \in KbStatuses : GetKnowledgeBase("ok", st)
  \/ ListIngestionJobs("ok", JobLists(MaxJobs))
  \/ AggregateJobs({})

SpecStatus == InitStatus /\ [][NextStatus]_vars

\* every read of the backend may raise
NextStatusFaulty ==
  \/ \E out \in Outcomes, st \in KbStatuses : GetKnowledgeBase(out, st)
  \/ \E out \in Outcomes : ListIngestionJobs(out, AnyJobLists(MaxFaultyJobs))
  \/ \E failed \in SUBSET (1 .. MaxFaultyJobs) : AggregateJobs(failed)

SpecStatusFaulty == InitStatus /\ [][NextStatusFaulty]_vars

\* the response carries a readiness verdict
Answered == ks.pc = "done" /\ ks.response.statusCode = 200
\* the stored jobs that are COMPLETE and indexed documents
WithDocuments(jobs) ==
  {i \in DOMAIN jobs :
     jobs[i].status = "COMPLETE" /\ jobs[i].new + jobs[i].modified > 0}

\* C14: whenever the status of the knowledge base is not ACTIVE (CREATING),
\* the verdict has systemReady = false, for every list of ingestion jobs.
C14_NotActiveNotReady ==
  Answered /\ ks.kb_status # "ACTIVE" =>
    /\ ~ks.response.systemReady
    /\ ks.response.readyMessage = "kb_status_abnormal"

\* a CREATING knowledge base whose newest job is COMPLETE with documents
C14_Witness ==
  /\ Answered /\ ks.kb_status = "CREATING"
  /\ Len(ks.stored) >= 2 /\ 1 \in WithDocuments(ks.stored)
  /\ ks.response.hasDocuments /\ ~ks.response.systemReady

\* C15: with status ACTIVE and the newest job COMPLETE, when that job or an
\* older job of the fetched window indexed documents, the verdict has
\* systemReady = true and totalDocumentsIndexed is the largest scanned count
\* of the COMPLETE jobs that indexed documents (one COMPLETE job that scanned
\* 10 and indexed 8 new and 2 modified documents gives 10).
C15_CompleteWithDocumentsReady ==
  ( /\ Answered /\ ks.kb_status = "ACTIVE"
    /\ ks.stored # <<>> /\ ks.stored[1].status = "COMPLETE"
    /\ WithDocuments(ks.stored) # {} ) =>
    /\ ks.response.systemReady
    /\ ks.response.totalDocumentsIndexed =
         MaxOf({ks.stored[i].scanned : i \in WithDocuments(ks.stored)})

\* C16: with status ACTIVE and the newest job FAILED, systemReady is true
\* (with the degraded message) exactly when an older job of the fetched
\* window is COMPLETE with indexed documents, and false ('indexing failed')
\* otherwise.
C16_FailedNewestFallsBack ==
  ( /\ Answered /\ ks.kb_status = "ACTIVE"
    /\ ks.stored # <<>> /\ ks.stored[1].status = "FAILED" ) =>
    IF WithDocuments(ks.stored) # {}
    THEN /\ ks.response.systemReady
         /\ ks.response.readyMessage = "latest_failed_documents_remain"
    ELSE /\ ~ks.response.systemReady
         /\ ks.response.readyMessage = "indexing_failed"

\* C17: with status ACTIVE and the newest job IN_PROGRESS the verdict has
\* systemReady = false and the 'processing' message, whatever the older jobs.
C17_InProgressNotReady ==
  ( /\ Answered /\ ks.kb_status = "ACTIVE"
    /\ ks.stored # <<>> /\ ks.stored[1].status = "IN_PROGRESS" ) =>
    /\ ~ks.response.systemReady
    /\ ks.response.readyMessage = "processing_documents"

\* the newest job is IN_PROGRESS, an older one is COMPLETE with documents
C17_Witness ==
  /\ Answered /\ ks.kb_status = "ACTIVE"
  /\ ks.stored # <<>> /\ ks.stored[1].status = "IN_PROGRESS"
  /\ ks.response.hasDocuments /\ ~ks.response.systemReady

\* C18: with status ACTIVE and no ingestion job the verdict has
\* systemReady = false, hasDocuments = false, totalDocumentsIndexed = 0 and
\* the 'knowledge base is empty, upload documents' message.
C18_NoJobsEmpty ==
  Answered /\ ks.kb_status = "ACTIVE" /\ ks.stored = <<>> =>
    /\ ~ks.response.systemReady
    /\ ~ks.response.hasDocuments
    /\ ks.response.totalDocumentsIndexed = 0
    /\ ks.response.readyMessage = "ready_no_documents"

C18_Witness ==
  /\ Answered /\ ks.kb_status = "ACTIVE" /\ ks.stored = <<>>
  /\ ks.response.totalJobs = 0 /\ ks.response.latestJobStatus = "None"

\* C19 as stated: when a read of the backend raises, the caller still
\* receives a verdict with systemReady = false, never an error response.
C19_AlwaysVerdict ==
  ks.pc = "done" /\ ks.configured /\ (ks.raised # "none" \/ ks.failed # {}) =>
    /\ ks.response.statusCode = 200
    /\ ~ks.response.systemReady

\* C19: handle_knowledge_base_status never raises.  When get_ingestion_job
\* raises for a job, the job is listed with the error, is not counted as
\* having documents, and the caller receives a 200 response with the verdict
\* computed from the other jobs (which can be systemReady = true); when
\* get_knowledge_base or list_ingestion_jobs raises, the caller receives a
\* 500 error response with a message and without a verdict.
C19_ReadFailures ==
  ks.pc = "done" =>
    /\ ks.response.statusCode \in {200, 500}
    /\ ks.response.statusCode = 500 <=>
         (~ks.configured \/ ks.raised # "none")
    /\ ks.response.statusCode = 500 =>
         /\ ~ks.response.success
         /\ ks.response.error \in {"not_configured", "status_failed"}
         /\ "systemReady" \notin DOMAIN ks.response
    /\ ks.response.statusCode = 200 =>
         /\ ks.response.success
         /\ \A i \in DOMAIN ks.response.ingestionJobs :
              ks.response.ingestionJobs[i].error <=> i \in ks.failed
         /\ ks.response.hasDocuments <=>
              ((WithDocuments(ks.stored) \cap (1 .. detail_window))
                 \ ks.failed) # {}
         /\ ks.response.systemReady => ks.response.hasDocuments

\* the detail read of the older job raised, the verdict is 'ready'
C19_Witness ==
  /\ Answered /\ ks.failed = {2}
  /\ ks.response.systemReady
  /\ ks.response.ingestionJobs[2].error

----------------------------------------------------------------------------
(* handle_query_request of query_handler/handler.py: POST /query, the       *)
(* knowledge base query and the fallback to the foundation model            *)

\* the exceptions of retrieve_and_generate that lines 313-320 tell apart
KbFailures == {"ResourceNotFound", "AccessDenied", "Validation", "other"}

\* what retrieve_and_generate returned: the number of cited references and
\* whether the generated text is a short or 'cannot find' answer (line 286)
KbResults == [sources : {0, 1}, short_answer : BOOLEAN]

\* lines 313-320: detailed_error
detailed_error(failure) ==
  CASE failure = "ResourceNotFound" -> "error: knowledge base not found"
    [] failure = "AccessDenied" -> "error: permission denied"
    [] failure = "Validation" -> "error: invalid parameters"
    [] OTHER -> "error: query failed"

\* the parts of an answer text, in the order they are concatenated
NOTICE == "notice: general knowledge, knowledge base not used"

\* invoke_model: it returns a body with the generated text, returns a body
\* without it, or raises
ModelOutcomes == {"text", "no text", "raise"}

\* lines 368-371: the text read from the body of the model, by model family
model_answer(nova, out) ==
  IF out = "text"
  THEN IF nova THEN "model output: outputText" ELSE "model output: completion"
  ELSE "cannot answer"

create_fallback_response_raise(nova, out, error_msg) ==
  IF out # "raise"
  THEN [answer |-> <<model_answer(nova, out), NOTICE, error_msg>>,
        sources |-> 0, fallback_mode |-> TRUE, error |-> FALSE,
        raised |-> FALSE]
  ELSE [answer |-> <<>>, sources |-> 0,
        fallback_mode |-> FALSE, error |-> TRUE, raised |-> TRUE]

\* lines 324-392: _create_fallback_response; nova tells the model family of
\* BEDROCK_MODEL_ID, out the outcome of invoke_model
create_fallback_response(nova, out, error_msg) ==
  IF out # "raise"
  THEN [answer |-> <<model_answer(nova, out), NOTICE, error_msg>>,
        sources |-> 0, fallback_mode |-> TRUE, error |-> FALSE,
        raised |-> FALSE]
  ELSE [answer |-> <<"service unavailable">>, sources |-> 0,
        fallback_mode |-> FALSE, error |-> TRUE, raised |-> FALSE]

\* lines 259-305: the result of a query the knowledge base answered
knowledge_base_response(r) ==
  IF r.sources = 0 /\ r.short_answer
  THEN [answer |-> <<"knowledge base empty">>, sources |-> 0,
        fallback_mode |-> FALSE, error |-> FALSE, raised |-> FALSE]
  ELSE [answer |-> <<"generated answer">>, sources |-> r.sources,
        fallback_mode |-> FALSE, error |-> FALSE, raised |-> FALSE]

\* lines 183-195: the 200 response of handle_query_request
query_response(response, include_sources) ==
  [statusCode |-> 200, success |-> TRUE, answer |-> response.answer,
   sources |-> IF include_sources THEN response.sources ELSE 0]

\* a POST /query request
QueryRuns ==
  [pc : {"start"},
   \* the question is non-empty after strip(); include_sources of the body
   question : BOOLEAN, include_sources : BOOLEAN,
   \* KNOWLEDGE_BASE_ID is set; BEDROCK_MODEL_ID names a nova model
   configured : BOOLEAN, nova : BOOLEAN,
   \* calls of retrieve_and_generate and of invoke_model
   kb_calls : {0}, model_calls : {0},
   \* the failure of retrieve_and_generate, and the outcome of invoke_model
   kb_failure : {"none"}, model_out : {"none"},
   error_msg : {"none"},
   response : {NoResponse}]

\* lines 168-180: the question is read; an empty one is answered with 400
HandleQueryRequest ==
  /\ qr.pc = "start"
  /\ qr' = IF ~qr.question
           THEN [qr EXCEPT !.pc = "done",
                   !.response = [statusCode |-> 400, success |-> FALSE]]
           ELSE [qr EXCEPT !.pc = "kb"]
  /\ UNCHANGED <<idx, inv, ninv, last_result, rx, pw, vc, ks, pool>>

\* lines 223-322: query_bedrock_knowledge_base; out is "ok" or the failure
\* of retrieve_and_generate, r what it returned
QueryKnowledgeBase(out, r) ==
  /\ qr.pc = "kb"
  /\ qr' = IF ~qr.configured
           THEN [qr EXCEPT !.pc = "fallback",
                           !.error_msg = "error: knowledge base not configured"]
           ELSE IF out = "ok"
           THEN [qr EXCEPT !.pc = "done", !.kb_calls = @ + 1,
                   !.response = query_response(knowledge_base_response(r),
                                               qr.include_sources)]
           ELSE [qr EXCEPT !.pc = "fallback", !.kb_calls = @ + 1,
                           !.kb_failure = out,
                           !.error_msg = detailed_error(out)]
  /\ UNCHANGED <<idx, inv, ninv, last_result, rx, pw, vc, ks, pool>>

\* lines 236 and 322, then 183-195: the fallback answer becomes the response
FallbackModel(out) ==
  /\ qr.pc = "fallback"
  /\ LET f == create_fallback_response(qr.nova, out, qr.error_msg)
     IN qr' = [qr EXCEPT !.pc = "done", !.model_calls = @ + 1,
                 !.model_out = out,
                 !.response =
                    IF f.raised THEN [statusCode |-> 500, success |-> FALSE]
                    ELSE query_response(f, qr.include_sources)]
  /\ UNCHANGED <<idx, inv, ninv, last_result, rx, pw, vc, ks, pool>>

InitQuery ==
  /\ idx = NoIndex
  /\ inv = [p \in Procs |-> IdleInv]
  /\ ninv = 0
  /\ last_result = NoResult
  /\ rx = NoRetryRun
  /\ pw = NoProberRun
  /\ vc = NoValidation
  /\ ks = NoStatusRun
  /\ qr \in QueryRuns
  /\ pool = NoPool

NextQuery ==
  \/ HandleQueryRequest
  \/ \E out \in {"ok"} \cup KbFailures, r \in KbResults : QueryKnowledgeBase(out, r)
  \/ \E out \in ModelOutcomes : FallbackModel(out)

SpecQuery == InitQuery /\ [][NextQuery]_vars

\* retrieve_and_generate was called and failed, the request is answered
KbFailed == qr.pc = "done" /\ qr.kb_failure # "none"

\* C20 as stated: when retrieve_and_generate fails for a non-empty question,
\* the model is invoked exactly once and the response is 200, success, no
\* sources, and the answer is the model output followed by the notice.
C20_FallbackAnswersWithModelOutput ==
  KbFailed =>
    /\ qr.model_calls = 1
    /\ qr.response.statusCode = 200 /\ qr.response.success
    /\ qr.response.sources = 0
    /\ Len(qr.response.answer) >= 2
    /\ qr.response.answer[1] \in
         {"model output: outputText", "model output: completion"}
    /\ qr.response.answer[2] = NOTICE

\* C20: when retrieve_and_generate fails for a non-empty question, the
\* handler calls invoke_model exactly once and answers 200 with success and
\* no sources, and no exception reaches the caller; when invoke_model
\* returns, the answer is the model output (a 'cannot answer' sentence when
\* the body of the model holds no text), the notice and the error text of
\* the failure; when invoke_model fails too, the answer is the 'service
\* unavailable' sentence without model output or notice.
C20_FallbackOnKbFailure ==
  KbFailed =>
    /\ qr.kb_calls = 1 /\ qr.model_calls = 1
    /\ qr.response.statusCode = 200 /\ qr.response.success
    /\ qr.response.sources = 0
    /\ qr.model_out # "raise" =>
         /\ Len(qr.response.answer) = 3
         /\ qr.response.answer[1] =
              (IF qr.model_out = "no text" THEN "cannot answer"
               ELSE IF qr.nova THEN "model output: outputText"
               ELSE "model output: completion")
         /\ qr.response.answer[2] = NOTICE
         /\ qr.response.answer[3] \in
              {"error: knowledge base not found", "error: permission denied",
               "error: invalid parameters", "error: query failed"}
    /\ qr.model_out = "raise" =>
         qr.response.answer = <<"service unavailable">>

\* both retrieve_and_generate and invoke_model failed
C20_Witness ==
  /\ KbFailed /\ qr.model_out = "raise" /\ qr.include_sources
  /\ qr.response.statusCode = 200

----------------------------------------------------------------------------
(* The retry executors on their own: retry_with_backoff (index.py) and      *)
(* smart_retry (optimized_handler.py) around an operation that the          *)
(* environment lets succeed or fail at every call                           *)

\* optimized_handler.py, should_retry: the error names that make a failure
\* retryable when its message contains one of them
retryable_errors ==
  {"ThrottlingException", "RequestLimitExceeded", "ServiceUnavailable",
   "RequestTimeout", "InternalServerError"}

\* a failure of the wrapped operation: its kind, and the retryable error
\* name its message contains ("none" when it contains none)
ExcKinds == {"auth", "validation", "conn", "other"}
ExcMentions == {"none", "ServiceUnavailable", "RequestTimeout"}
Excs == [kind : ExcKinds, mentions : ExcMentions]
NoExc == [kind |-> "none", mentions |-> "none"]

should_retry_always(e) == TRUE

should_retry(e) == e.mentions \in retryable_errors

\* smart_retry, one pass of the loop of its wrapper
\*   "raise_last" range(max_attempts) is exhausted: raise last_exception
\*   "return"     the call returned
\*   "raise"      the failure is not retryable: re-raised at once
\*   "sleep"      retryable and attempts remain: sleep, then attempt + 1
\*   "next"       retryable at the last attempt: logged, the loop ends and
\*                last_exception is raised
smart_retry(attempt, max_attempts, ok, e) ==
  IF ~(attempt < max_attempts) THEN "raise_last"
  ELSE IF ok THEN "return"
  ELSE IF ~should_retry(e) THEN "raise"
  ELSE IF attempt < max_attempts - 1 THEN "sleep"
  ELSE "next"

\* optimized_handler.py: wait_time = backoff_factor ** attempt
smart_wait_time(backoff_factor, attempt) == backoff_factor ^ attempt

Delays == {1, 2}
Factors == {1, 2, 3}

RetryRuns ==
  [pc : {"loop"}, mode : {"backoff", "smart"},
   max_retries : RetryInputs, initial_delay : Delays, backoff_factor : Factors,
   attempt : {0}, calls : {0}, failed : {0}, sleeps : {<<>>},
   last_exc : {NoExc}, kinds : {{}}, result : {"none"}, value : {0},
   raised : {NoExc}]

\* the k-th call of the operation returns k when it succeeds
RetryPass(ok, e) ==
  /\ rx.pc = "loop"
  /\ LET calls == rx.attempt < rx.max_retries
         c == IF calls
              THEN [rx EXCEPT !.calls = @ + 1,
                              !.failed = IF ok THEN @ ELSE @ + 1,
                              !.last_exc = IF ok THEN @ ELSE e,
                              !.kinds = IF ok THEN @ ELSE @ \cup {e.kind}]
              ELSE rx
         ctl == IF rx.mode = "backoff"
                THEN retry_with_backoff(rx.attempt, rx.max_retries, ok)
                ELSE smart_retry(rx.attempt, rx.max_retries, ok, e)
         delay == IF rx.mode = "backoff"
                  THEN backoff_delay(rx.initial_delay, rx.backoff_factor, rx.attempt)
                  ELSE smart_wait_time(rx.backoff_factor, rx.attempt)
     IN rx' =
          CASE ctl = "none" -> [c EXCEPT !.pc = "done", !.result = "None"]
            [] ctl = "return" ->
                 [c EXCEPT !.pc = "done", !.result = "value", !.value = c.calls]
            [] ctl = "raise" ->
                 [c EXCEPT !.pc = "done", !.result = "raise", !.raised = e]
            [] ctl = "sleep" ->
                 [c EXCEPT !.attempt = @ + 1, !.sleeps = Append(@, delay)]
            [] OTHER ->
                 \* "next", "raise_last": the loop is over, raise
                 \* last_exception; with None it is a TypeError
                 IF c.last_exc = NoExc
                 THEN [c EXCEPT !.pc = "done", !.result = "TypeError"]
                 ELSE [c EXCEPT !.pc = "done", !.result = "raise",
                                !.raised = c.last_exc]
  /\ UNCHANGED <<idx, inv, ninv, last_result, pw, vc, ks, qr, pool>>

InitRetry ==
  /\ idx = NoIndex
  /\ inv = [p \in Procs |-> IdleInv]
  /\ ninv = 0
  /\ last_result = NoResult
  /\ rx \in RetryRuns
  /\ pw = NoProberRun
  /\ vc = NoValidation
  /\ ks = NoStatusRun
  /\ qr = NoQueryRun
  /\ pool = NoPool

NextRetry == \E ok \in BOOLEAN, e \in Excs : RetryPass(ok, e)

SpecRetry == InitRetry /\ [][NextRetry]_vars

----------------------------------------------------------------------------
(* Claims about the retry executors, checked under SpecRetry *)

RECURSIVE SumSeq(_)
SumSeq(q) == IF q = <<>> THEN 0 ELSE Head(q) + SumSeq(Tail(q))

BackoffDone == rx.mode = "backoff" /\ rx.pc = "done"

\* C3: retry_with_backoff(func, N, d, f) around a func that always fails
\* calls func exactly N times and sleeps N-1 times, d*f^0, ..., d*f^(N-2),
\* with no sleep after the last attempt; for N=3, d=1, f=2 that is 3 calls
\* and 1+2 = 3 seconds of sleep.
C3_BackoffBound ==
  (BackoffDone /\ rx.max_retries >= 1 /\ rx.failed = rx.calls) =>
    /\ rx.calls = rx.max_retries
    /\ rx.sleeps = [k \in 1 .. (rx.max_retries - 1) |->
                      rx.initial_delay * rx.backoff_factor ^ (k - 1)]
    /\ (rx.max_retries = 3 /\ rx.initial_delay = 1 /\ rx.backoff_factor = 2
          => rx.calls = 3 /\ SumSeq(rx.sleeps) = 3)

C3_Witness ==
  /\ BackoffDone /\ rx.failed = rx.calls
  /\ rx.max_retries = 3 /\ rx.initial_delay = 1 /\ rx.backoff_factor = 2
  /\ rx.sleeps = <<1, 2>>

\* C4: retry_with_backoff returns the value of the first successful call and
\* calls no more after it; when every attempt failed it raises the failure
\* of the last attempt, unchanged. No failure is swallowed: while the loop
\* runs every call so far has failed, and a run whose calls all failed never
\* ends with a value or None.
C4_NoSwallow ==
  rx.mode = "backoff" =>
    /\ rx.pc = "loop" => rx.failed = rx.calls
    /\ (rx.pc = "done" /\ rx.result = "value") =>
         rx.value = rx.calls /\ rx.failed = rx.calls - 1
    /\ (rx.pc = "done" /\ rx.calls >= 1 /\ rx.failed = rx.calls) =>
         /\ rx.result = "raise"
         /\ rx.raised = rx.last_exc
         /\ rx.calls = rx.max_retries

C4_Witness ==
  /\ BackoffDone /\ rx.max_retries = 3 /\ rx.calls = 3 /\ rx.failed = 3
  /\ rx.result = "raise" /\ rx.raised.kind = "conn"

\* C5, as claimed: an executor retries only backend-unavailable failures; as
\* soon as the operation fails with an authorization or a validation failure
\* the run is over and that failure propagates (one call, no sleep when it
\* is the first failure).
C5_OnlyUnavailableRetried ==
  (rx.failed = rx.calls /\ rx.last_exc.kind \in {"auth", "validation"}) =>
    /\ rx.pc = "done" /\ rx.result = "raise" /\ rx.raised = rx.last_exc
    /\ (rx.kinds \subseteq {"auth", "validation"} =>
          rx.calls = 1 /\ rx.sleeps = <<>>)

\* C5, amended: retry_with_backoff retries every failure alike, whatever its
\* kind: it sleeps after each failed attempt but the last, and raises only
\* after max_retries calls. smart_retry propagates at once the failures whose
\* message names none of its retryable errors (whatever their kind), and
\* sleeps and retries only after the others.
C5_RetryPolicy ==
  /\ rx.mode = "backoff" =>
       /\ (rx.pc = "loop" /\ rx.calls >= 1) => Len(rx.sleeps) = rx.calls
       /\ (rx.pc = "done" /\ rx.result = "raise") =>
            rx.calls = rx.max_retries /\ Len(rx.sleeps) = rx.max_retries - 1
  /\ rx.mode = "smart" =>
       /\ (rx.failed = rx.calls /\ rx.calls >= 1
             /\ rx.last_exc.mentions = "none") =>
            rx.pc = "done" /\ rx.result = "raise" /\ rx.raised = rx.last_exc
       /\ (rx.pc = "loop" /\ rx.calls >= 1) =>
            /\ rx.last_exc.mentions \in {"ServiceUnavailable", "RequestTimeout"}
            /\ Len(rx.sleeps) = rx.calls

\* an operation that fails with an authorization failure at each of 3
\* attempts of retry_with_backoff: 3 calls, 2 sleeps
C5_Witness ==
  /\ BackoffDone /\ rx.result = "raise" /\ rx.kinds = {"auth"}
  /\ rx.calls = 3 /\ Len(rx.sleeps) = 2

----------------------------------------------------------------------------
(* Two invocations of lambda_handler at the same time, for the same index   *)
(* name, against a backend that fails a call only for the state of the      *)
(* index: delete and get_settings on a missing index, create on an existing *)
(* one                                                                      *)

RaceStep(p) ==
  \/ \E mr \in RetryInputs, fr \in BOOLEAN : Invoke(p, mr, FALSE, fr)
  \/ Setup(p, TRUE)
  \/ CheckExists(p, "ok")
  \/ GetVersion(p, "ok")
  \/ DeleteIndex(p, "ok")
  \/ SettleAfterDelete(p)
  \/ CreateIndex(p, "ok")
  \/ SettleAfterCreate(p)
  \/ VerifyIndex(p, "ok")

NextRace == \E p \in Procs : RaceStep(p)

SpecRace == Init /\ [][NextRace]_vars

----------------------------------------------------------------------------
(* Claims about lambda_handler *)

CreateOrLater == {"create", "settle_create", "verify", "done"}

\* the invocation found the index and read a version that is not the target
FoundStale(r) ==
  /\ r.found = "yes"
  /\ r.current_version \notin {"none", target_version}

C2_VersionIsTarget ==
  \A p \in Procs :
    inv[p].pc = "done" => idx.exists /\ idx.version = target_version

\* C6, as claimed: the 'Index created successfully' response is returned
\* only when the create call succeeded, and an invocation whose create call
\* never succeeded returns an error response.
C6_NoFalseSuccess ==
  \A p \in Procs :
    /\ (inv[p].pc = "done" /\ inv[p].message = "created") => inv[p].created
    /\ (inv[p].pc = "done" /\ inv[p].found # "none" /\ ~inv[p].created
          /\ inv[p].message # "exists") =>
         inv[p].status \in {403, 503, 500}

\* C7, as claimed: when the index is found stale, a successful delete and the
\* settle wait precede every create call.
C7_DeleteAndSettleBeforeCreate ==
  \A p \in Procs :
    (FoundStale(inv[p]) /\ inv[p].n_create > 0) =>
      inv[p].deleted_ok /\ inv[p].settled

\* C7, amended: when the index is found stale the handler issues the delete
\* before anything else; when the delete succeeds it waits the settle delay
\* and only then submits the creation; when the delete fails on all of its 3
\* attempts it skips the wait and submits the creation all the same.
C7_DeleteThenSettleThenCreate ==
  \A p \in Procs :
    FoundStale(inv[p]) =>
      /\ inv[p].pc \in {"delete", "settle_delete"} \cup CreateOrLater
      /\ inv[p].pc \in CreateOrLater => inv[p].n_delete >= 1
      /\ (inv[p].deleted_ok /\ ~inv[p].settled) =>
           inv[p].pc = "settle_delete" /\ inv[p].n_create = 0
      /\ (inv[p].pc \in CreateOrLater /\ ~inv[p].deleted_ok) =>
           inv[p].n_delete = 3 /\ ~inv[p].settled
      /\ inv[p].pc \in {"delete", "settle_delete"} => inv[p].n_create = 0

C7_Witness ==
  /\ FoundStale(inv[1]) /\ inv[1].current_version = "v1"
  /\ inv[1].deleted_ok /\ inv[1].settled /\ inv[1].n_create = 1

\* C8, as claimed: an invocation that found no index and whose create call
\* fails because the other invocation has created the index meanwhile does
\* not report an error.
C8_LostRaceIsBenign ==
  \A p \in Procs :
    (inv[p].pc = "done" /\ inv[p].found = "no" /\ inv[p].create_exc = "other"
       /\ \E q \in Procs \ {p} : inv[q].created) =>
      inv[p].status = 200

\* C9, as claimed: with force_recreate, an invocation that finds the index
\* with the target version deletes it and recreates it: when it has
\* completed, its delete and its create have succeeded and the index is
\* there again, with the target version.
C9_ForceRecreates ==
  \A p \in Procs :
    (inv[p].force_in /\ inv[p].current_version = target_version
       /\ inv[p].pc = "done") =>
      /\ inv[p].message = "created"
      /\ inv[p].deleted_ok /\ inv[p].created
      /\ idx.exists /\ idx.version = target_version

\* C10: a create call that fails for good is reported by kind: an
\* authorization failure as 403, a connection failure or timeout as 503,
\* any other failure as 500.
C10_ThreeErrorKinds ==
  \A p \in Procs :
    (inv[p].pc = "done" /\ inv[p].create_exc # "none") =>
      /\ inv[p].message = "error"
      /\ inv[p].create_exc = "auth" <=> inv[p].status = 403
      /\ inv[p].create_exc = "conn" <=> inv[p].status = 503
      /\ inv[p].create_exc = "other" <=> inv[p].status = 500

C10_Witness ==
  /\ inv[1].pc = "done" /\ inv[1].create_exc = "auth" /\ inv[1].status = 403
  /\ inv[1].n_create = 3

----------------------------------------------------------------------------
(* The verification read after the creation *)

\* C11: the verification read is best effort.  An invocation whose
\* verification read has run, whether it succeeded or failed on all three
\* attempts, returns the creation-success response (200, 'Index created
\* successfully'): the outcome of the verification never changes the status.
C11_VerificationBestEffort ==
  \A p \in Procs :
    inv[p].verified # "none" =>
      /\ inv[p].pc = "done"
      /\ inv[p].status = 200
      /\ inv[p].message = "created"

\* the create call succeeded, the three verification reads failed
C11_Witness ==
  /\ inv[1].pc = "done"
  /\ inv[1].created
  /\ inv[1].verified = "no"
  /\ inv[1].status = 200

----------------------------------------------------------------------------
(* The existence check, the version tag and the prober in lambda_handler *)

\* the creation step has been left: create_index_with_retry has returned or
\* raised
AfterCreate == {"settle_create", "verify", "done"}

\* C21: when indices.exists fails on both attempts of the existence check,
\* the handler returns no error for it and issues no delete; it goes on to
\* the validation and submits the creation (an indices.create call is
\* issued).
C21_ExistsFailureProceedsToCreate ==
  \A p \in Procs :
    inv[p].found = "error" =>
      /\ inv[p].n_delete = 0
      /\ inv[p].pc \in CreateOrLater
      /\ inv[p].pc \in AfterCreate => inv[p].n_create >= 1

\* C22: an existing index without the setting bedrock_kb_index_version is
\* read as version 'v1' by get_index_version; the target being 'v3', the
\* handler takes it for stale, deletes it and recreates it, and when the
\* invocation has completed the index exists and carries the tag 'v3'.
C22_UntaggedIndexRecreated ==
  \A p \in Procs :
    (inv[p].found = "yes" /\ inv[p].stored_tag = NoTag
       /\ inv[p].current_version # "unknown") =>
      /\ inv[p].current_version = "v1"
      /\ inv[p].pc \in CreateOrLater => inv[p].deleted_ok
      /\ inv[p].pc = "done" =>
           /\ inv[p].created
           /\ idx.exists /\ idx.version = target_version

-----------------------------------------------------------------------------
(* The verdict of handle_knowledge_base_status, further cases *)

\* C23: with status ACTIVE and the newest job COMPLETE, when none of the
\* jobs of the detail window (the five newest) indexed a document, the
\* verdict has systemReady = false, hasDocuments = false and the 'knowledge
\* base is empty' message.
C23_CompleteButEmptyWindow ==
  (/\ Answered /\ ks.kb_status = "ACTIVE"
   /\ ks.stored # <<>> /\ ks.stored[1].status = "COMPLETE"
   /\ WithDocuments(ks.stored) \cap (1 .. detail_window) = {}) =>
    /\ ~ks.response.systemReady
    /\ ~ks.response.hasDocuments
    /\ ks.response.totalDocumentsIndexed = 0
    /\ ks.response.readyMessage = "ready_no_documents"

C23_Witness ==
  /\ Answered /\ ks.kb_status = "ACTIVE"
  /\ Len(ks.stored) >= 2 /\ ks.stored[1].status = "COMPLETE"
  /\ ks.stored[2].status = "COMPLETE"
  /\ WithDocuments(ks.stored) \cap (1 .. detail_window) = {}
  /\ ks.response.readyMessage = "ready_no_documents"

-----------------------------------------------------------------------------
(* lambda_handler after the prober *)

\* the invocation waited for the collection and wait_for_collection_ready
\* returned False
ProberTimedOut(r) == r.wait_for_ready /\ r.probed /\ ~r.ready

\* C24 as stated: after a prober timeout the handler goes on to the
\* existence check and to the creation attempt: no invocation whose prober
\* timed out returns the 'already exists' response, which is returned before
\* the creation step is reached.
C24_TimeoutAlwaysReachesCreation ==
  \A p \in Procs :
    (ProberTimedOut(inv[p]) /\ inv[p].pc = "done") =>
      inv[p].message # "exists"

\* C24: a prober timeout is only logged.  The handler returns nothing at that
\* point: it goes on to the existence check, and every response of such an
\* invocation comes after the existence check.  From there the flow is the
\* usual one: the creation step is reached, unless the index is found with
\* the target version and force_recreate is not set, in which case the
\* handler returns 'already exists' with no delete and no create call.
C24_TimeoutOnlyLogged ==
  \A p \in Procs :
    ProberTimedOut(inv[p]) =>
      /\ inv[p].pc \in {"exists", "settings", "delete", "settle_delete"}
                         \cup CreateOrLater
      /\ inv[p].pc # "exists" => inv[p].found # "none"
      /\ inv[p].pc = "done" =>
           \/ /\ inv[p].message = "exists" /\ inv[p].status = 200
              /\ inv[p].found = "yes" /\ ~inv[p].force_in
              /\ inv[p].current_version = target_version
              /\ inv[p].n_delete = 0 /\ inv[p].n_create = 0
           \/ /\ inv[p].message = "created" /\ inv[p].status = 200
           \/ /\ inv[p].message = "error"
              /\ inv[p].create_exc # "none" /\ inv[p].n_create >= 1

\* the prober timed out, the existence check failed as well, and the
\* invocation created the index all the same
C24_Witness ==
  /\ ProberTimedOut(inv[1]) /\ inv[1].pc = "done"
  /\ inv[1].found = "error" /\ inv[1].created /\ inv[1].message = "created"

-----------------------------------------------------------------------------
(* wait_for_collection_ready against a collection that never answers *)

\* largest value of max_wait in the runs whose probes all fail
MaxWaitFailing == 40

\* every client.info() call raises and takes no time: the clock advances by
\* the sleeps only
InitProberFailing ==
  /\ idx = NoIndex
  /\ inv = [p \in Procs |-> IdleInv]
  /\ ninv = 0
  /\ last_result = NoResult
  /\ rx = NoRetryRun
  /\ pw \in [pc : {"loop"}, max_wait : (-1) .. MaxWaitFailing, elapsed : {0},
             probes : {0}, ok_probes : {0}, result : {"none"}]
  /\ vc = NoValidation
  /\ ks = NoStatusRun
  /\ qr = NoQueryRun
  /\ pool = NoPool

NextProberFailing == \E out \in Outcomes \ {"ok"} : ProberPass(out, 0)

\* the function runs on once called
SpecProberFailing ==
  InitProberFailing /\ [][NextProberFailing]_vars /\ WF_vars(NextProberFailing)

CeilDiv(a, b) == (a + b - 1) \div b

\* C25: with probes that fail forever and a clock that advances by the poll
\* interval of 5 s at every sleep, wait_for_collection_ready(client,
\* max_wait) eventually returns False; it never makes more than
\* ceil(max_wait / 5) probe calls, and none when max_wait <= 0.
C25_ProberTerminates ==
  /\ <>(pw.pc = "done" /\ pw.result = "false")
  /\ [](pw.probes <= (IF pw.max_wait <= 0 THEN 0
                      ELSE CeilDiv(pw.max_wait, poll_interval)))
  /\ [](pw.pc = "done" => pw.result = "false" /\ pw.ok_probes = 0)

C25_Witness ==
  /\ pw.pc = "done" /\ pw.result = "false"
  /\ pw.max_wait = 11 /\ pw.probes = 3 /\ pw.elapsed = 15

-----------------------------------------------------------------------------
(* Deletions and success responses of lambda_handler *)

\* C26: without force_recreate, lambda_handler issues an indices.delete call
\* only if the version tag stored on the index differs from the target
\* version 'v3', also when the settings read fails: an index that carries
\* the target version is never deleted.
C26_CurrentIndexNeverDeleted ==
  \A p \in Procs :
    (~inv[p].force_in /\ inv[p].n_delete >= 1) =>
      inv[p].stored_tag # target_version

\* C27: for every value of the event field max_retries, zero and negative
\* values included, the 'Index created successfully' response is returned
\* only if a client.indices.create call of that invocation returned without
\* raising.
C27_SuccessOnlyAfterCreate ==
  /\ \A p \in Procs :
       inv[p].message = "created" =>
         inv[p].n_create >= 1 /\ inv[p].created
  /\ last_result.message = "created" => last_result.created

\* C28: two invocations that run at the same time and both find the index
\* stale converge: against a backend that fails a call only for the state of
\* the index, under every interleaving of their calls, once both have
\* returned the index exists and carries the target version 'v3'.
C28_ConcurrentRecreationConverges ==
  (\A p \in Procs : inv[p].pc = "done" /\ FoundStale(inv[p])) =>
    idx.exists /\ idx.version = target_version

-----------------------------------------------------------------------------
(* Consistency of the verdict of handle_knowledge_base_status *)

\* C29: in every response that carries a verdict, systemReady = true
\* implies that the status of the knowledge base is ACTIVE, that
\* hasDocuments is true and that the newest job is COMPLETE or FAILED; and
\* totalDocumentsIndexed > 0 implies that hasDocuments is true.  This holds
\* whatever reads of the job details raise.
C29_VerdictConsistent ==
  Answered =>
    /\ ks.response.systemReady =>
         /\ ks.kb_status = "ACTIVE"
         /\ ks.response.hasDocuments
         /\ ks.stored # <<>>
         /\ ks.stored[1].status \in {"COMPLETE", "FAILED"}
         /\ ks.response.latestJobStatus \in {"COMPLETE", "FAILED"}
    /\ ks.response.totalDocumentsIndexed > 0 => ks.response.hasDocuments

\* ready although the newest job failed and its detail read raised: an
\* older job indexed documents
C29_Witness ==
  /\ Answered /\ ks.response.systemReady
  /\ ks.kb_status = "ACTIVE" /\ ks.response.latestJobStatus = "FAILED"
  /\ ks.failed = {1} /\ ks.response.hasDocuments
  /\ ks.response.totalDocumentsIndexed > 0

-----------------------------------------------------------------------------
(* ConnectionPool of optimized_handler.py *)

\* largest value of the constructor parameter max_connections
MaxConnections == 2
\* the releases are followed up to this length of the list _available
MaxAvailable == 3

\* the callers of the pool
Callers == {"a", "b"}
\* the connections a caller can pass to release_connection: those the pool
\* can create, named by their position in _connections, and a foreign one
Connections == 1 .. (MaxConnections + 1)

\* _create_connection returns a connection (a subclass) or raises
\* NotImplementedError (the base class)
CreateOutcomes == {"ok", "raise"}

\* the state after __init__ (lines 182-185); held is the set of connections
\* each caller has obtained and not released, returned is the outcome of the
\* last call
Pools ==
  [pc : {"on"}, max_connections : 0 .. MaxConnections,
   connections : {<<>>}, available : {<<>>},
   held : {[c \in Callers |-> {}]}, returned : {"none"}]

InSeq(x, s) == \E i \in DOMAIN s : s[i] = x

\* lines 187-197: get_connection, called by c; out is the outcome of
\* _create_connection
get_connection(c, out) ==
  /\ pool.pc = "on"
  /\ IF pool.available # <<>>
     THEN LET conn == pool.available[Len(pool.available)]
          IN pool' = [pool EXCEPT
               !.available = SubSeq(@, 1, Len(@) - 1),
               !.held[c] = @ \cup {conn},
               !.returned = "connection"]
     ELSE IF Len(pool.connections) < pool.max_connections
     THEN IF out = "ok"
          THEN LET conn == Len(pool.connections) + 1
               IN pool' = [pool EXCEPT
                    !.connections = Append(@, conn),
                    !.held[c] = @ \cup {conn},
                    !.returned = "connection"]
          ELSE pool' = [pool EXCEPT !.returned = "NotImplementedError"]
     ELSE pool' = [pool EXCEPT !.returned = "RuntimeError"]
  /\ UNCHANGED <<idx, inv, ninv, last_result, rx, pw, vc, ks, qr>>

\* lines 199-202: release_connection(conn), called by c
release_connection(c, conn) ==
  /\ pool.pc = "on"
  /\ Len(pool.available) < MaxAvailable
  /\ pool' = [pool EXCEPT
       !.available = IF InSeq(conn, pool.connections)
                     THEN Append(@, conn) ELSE @,
       !.held[c] = @ \ {conn},
       !.returned = IF InSeq(conn, pool.connections)
                    THEN "released" ELSE "ignored"]
  /\ UNCHANGED <<idx, inv, ninv, last_result, rx, pw, vc, ks, qr>>

InitPool ==
  /\ idx = NoIndex
  /\ inv = [p \in Procs |-> IdleInv]
  /\ ninv = 0
  /\ last_result = NoResult
  /\ rx = NoRetryRun
  /\ pw = NoProberRun
  /\ vc = NoValidation
  /\ ks = NoStatusRun
  /\ qr = NoQueryRun
  /\ pool \in Pools

NextPool ==
  \/ \E c \in Callers, out \in CreateOutcomes : get_connection(c, out)
  \/ \E c \in Callers, conn \in Connections : release_connection(c, conn)

SpecPool == InitPool /\ [][NextPool]_vars

\* C30: for any sequence of get_connection and release_connection calls the
\* pool creates at most max_connections connections, and a connection is
\* never held by two callers at once.
C30_ExclusiveAndBounded ==
  pool.pc = "on" =>
    /\ Len(pool.connections) <= pool.max_connections
    /\ \A c1, c2 \in Callers :
         c1 # c2 => pool.held[c1] \cap pool.held[c2] = {}

====
